---- MODULE Spec2Model ----
(***************************************************************************)
(* Query result format registry, selector, sniffer and formatters of      *)
(* rasqal (rasqal_result_formats.c), and its table of XSD datatype URIs    *)
(* (rasqal_xsd_datatypes.c).                                               *)
(*                                                                         *)
(* C strings that are only ever compared with strcmp() are TLA+ strings;   *)
(* a NULL-terminated C array is a sequence whose last element is NULL and  *)
(* a NULL array pointer is the empty sequence.  Identifiers, which the     *)
(* sniffer reads character by character, are sequences of characters.     *)
(* Factories live in a heap of addresses so that a pointer kept in the     *)
(* registry after its block was freed can be told from a live one.         *)
(***************************************************************************)
EXTENDS Integers, Sequences, FiniteSets, TLC

NULL == "NULL"
CRASH == "CRASH"

RASQAL_QUERY_RESULTS_FORMAT_FLAG_READER == 1
RASQAL_QUERY_RESULTS_FORMAT_FLAG_WRITER == 2

(* bounds *)
MaxReg == 2
MaxInitFail == 2
MaxIdLen == 3
MaxOps == 2
MaxRows == 2

VARIABLES query_results_formats, heap, registered, crashed, last,
          formatter, results, iostr, xsd_namespace_uri, xsd_datatype_uris

(* the formatter a caller holds, the result set and the stream it is used   *)
(* with                                                                     *)
fmt == <<formatter, results, iostr>>

(* the XSD datatype URIs of the world *)
xsd == <<xsd_namespace_uri, xsd_datatype_uris>>

vars == <<query_results_formats, heap, registered, crashed, last, fmt, xsd>>

(* registered is the set of positions of the sequence whose registration   *)
(* returned the factory (line 126) rather than NULL.                        *)
(* last records the most recent call and what it returned.  A query reads   *)
(* the registry and the heap and writes neither, so whatever a run does     *)
(* after a query it can do without it: a run is followed up to its first    *)
(* query, or up to the fault that ends the process.                         *)
QueryOps == {"check", "guess"}
Running == ~crashed /\ last.op \notin QueryOps

(***************************************************************************)
(* Factories                                                               *)
(***************************************************************************)

(* a factory block as RASQAL_CALLOC returns it, after desc.mime_types = NULL *)
ZeroFactory ==
  [names |-> <<>>, label |-> FALSE, uri_strings |-> <<>>, mime_types |-> <<>>,
   flags |-> 0, get_rowsource |-> FALSE, write |-> FALSE,
   context_length |-> 0, init |-> FALSE, finish |-> FALSE,
   recognise_syntax |-> NULL]

TypeQ(m, q) == [mime_type |-> m, q |-> q]

(* the factory contents each per-syntax registration callback stores *)
XmlFactory ==
  [names |-> <<"xml", NULL>>, label |-> TRUE,
   uri_strings |-> <<"u:xml", NULL>>,
   mime_types |-> <<TypeQ("m/xml", 10), TypeQ(NULL, 0)>>,
   flags |-> 0, get_rowsource |-> TRUE, write |-> TRUE,
   context_length |-> 1, init |-> TRUE, finish |-> TRUE,
   recognise_syntax |-> "by_content"]

JsonFactory ==
  [names |-> <<"json", "js", NULL>>, label |-> TRUE,
   uri_strings |-> <<"u:json", NULL>>,
   mime_types |-> <<TypeQ("m/json", 10), TypeQ("m/text", 5), TypeQ(NULL, 0)>>,
   flags |-> 0, get_rowsource |-> FALSE, write |-> TRUE,
   context_length |-> 0, init |-> FALSE, finish |-> TRUE,
   recognise_syntax |-> "by_suffix"]

TableFactory ==
  [names |-> <<"tab", "table", NULL>>, label |-> TRUE,
   uri_strings |-> <<>>,
   mime_types |-> <<TypeQ("m/text", 10), TypeQ(NULL, 0)>>,
   flags |-> 3, get_rowsource |-> FALSE, write |-> TRUE,
   context_length |-> 0, init |-> FALSE, finish |-> FALSE,
   recognise_syntax |-> NULL]

SvFactory ==
  [names |-> <<"csv", NULL>>, label |-> TRUE,
   uri_strings |-> <<"u:csv", NULL>>,
   mime_types |-> <<TypeQ("m/csv", 10), TypeQ(NULL, 0)>>,
   flags |-> 0, get_rowsource |-> TRUE, write |-> TRUE,
   context_length |-> 1, init |-> TRUE, finish |-> TRUE,
   recognise_syntax |-> "by_suffix"]

HtmlFactory ==
  [names |-> <<"html", NULL>>, label |-> TRUE,
   uri_strings |-> <<"u:html", NULL>>,
   mime_types |-> <<TypeQ("m/html", 10), TypeQ("m/text", 10), TypeQ(NULL, 0)>>,
   flags |-> 0, get_rowsource |-> FALSE, write |-> TRUE,
   context_length |-> 0, init |-> FALSE, finish |-> FALSE,
   recognise_syntax |-> NULL]

TurtleFactory ==
  [names |-> <<"turtle", NULL>>, label |-> TRUE,
   uri_strings |-> <<"u:turtle", NULL>>,
   mime_types |-> <<>>,
   flags |-> 0, get_rowsource |-> TRUE, write |-> FALSE,
   context_length |-> 1, init |-> TRUE, finish |-> FALSE,
   recognise_syntax |-> NULL]

RdfFactory ==
  [names |-> <<"rdfxml", NULL>>, label |-> TRUE,
   uri_strings |-> <<"u:xml", NULL>>,
   mime_types |-> <<TypeQ("m/rdf", 10), TypeQ(NULL, 0)>>,
   flags |-> 0, get_rowsource |-> TRUE, write |-> TRUE,
   context_length |-> 0, init |-> TRUE, finish |-> TRUE,
   recognise_syntax |-> "by_content"]

(* a registration callback: the contents it stores and what it returns *)
Routine(f, rc) == [f |-> f, rc |-> rc]

(* the seven callbacks rasqal_init_result_formats() registers, in order *)
Syntaxes ==
  <<XmlFactory, JsonFactory, TableFactory, SvFactory, HtmlFactory,
    TurtleFactory, RdfFactory>>

(* the ways one callback can go wrong *)
NoNames(f) == [f EXCEPT !.names = <<>>]
NoFirstName(f) == [f EXCEPT !.names = <<NULL>>]
NoLabel(f) == [f EXCEPT !.label = FALSE]

(* the callbacks register() is called with *)
Routines ==
  {Routine(XmlFactory, 0), Routine(JsonFactory, 0), Routine(TableFactory, 0),
   Routine(TurtleFactory, 0),
   Routine(HtmlFactory, 1), Routine(NoLabel(JsonFactory), 0),
   Routine(NoNames(TableFactory), 0), Routine(NoFirstName(XmlFactory), 0)}

(***************************************************************************)
(* The heap of factory blocks                                              *)
(***************************************************************************)

Block(live, f, allocs, frees) ==
  [live |-> live, f |-> f, allocs |-> allocs, frees |-> frees]

FreedAddrs(hp) == {a \in 1..Len(hp) : ~hp[a].live}

(* RASQAL_CALLOC: a new block, or a freed one handed out again *)
CallocAddrs(hp) == {Len(hp) + 1} \cup FreedAddrs(hp)

Calloc(hp, a) ==
  IF a = Len(hp) + 1
  THEN Append(hp, Block(TRUE, ZeroFactory, 1, 0))
  ELSE [hp EXCEPT ![a] = Block(TRUE, ZeroFactory, hp[a].allocs + 1, hp[a].frees)]

(* rasqal_free_query_results_format_factory *)
rasqal_free_query_results_format_factory(hp, a) ==
  [hp EXCEPT ![a].live = FALSE, ![a].frees = hp[a].frees + 1]

(***************************************************************************)
(* Registration                                                            *)
(***************************************************************************)

DerivedFlags(f) ==
  (IF f.get_rowsource THEN RASQAL_QUERY_RESULTS_FORMAT_FLAG_READER ELSE 0) +
  (IF f.write THEN RASQAL_QUERY_RESULTS_FORMAT_FLAG_WRITER ELSE 0)

(* the test of lines 81-82 *)
MissingRequired(f) ==
  \/ f.names = <<>>
  \/ f.names[1] = NULL
  \/ ~f.label

(* rasqal_world_register_query_results_format_factory on the sequence seq   *)
(* and heap hp, with callback r.  alloc.addr is the address RASQAL_CALLOC   *)
(* returns (0 when it fails) and alloc.push tells whether                   *)
(* raptor_sequence_push succeeds.  Yields the new sequence, the new heap    *)
(* and the returned pointer (0 is NULL).                                    *)
RegisterResult(seq, hp, ret) == [seq |-> seq, heap |-> hp, ret |-> ret]

rasqal_world_register_query_results_format_factory(seq, hp, r, alloc) ==
  IF alloc.addr = 0 THEN RegisterResult(seq, hp, 0)
  ELSE
    LET a   == alloc.addr
        hp1 == Calloc(hp, a)
    IN
    IF ~alloc.push
    THEN RegisterResult(seq, rasqal_free_query_results_format_factory(hp1, a), 0)
    ELSE
      LET seq1 == Append(seq, a)
          hp2  == [hp1 EXCEPT ![a].f = r.f]
      IN
      IF r.rc # 0 THEN RegisterResult(seq1, hp2, 0)
      ELSE IF MissingRequired(r.f)
      THEN RegisterResult(seq1, rasqal_free_query_results_format_factory(hp2, a), 0)
      ELSE RegisterResult(seq1,
                          [hp2 EXCEPT ![a].f.flags = DerivedFlags(r.f)], a)

AllocChoices(hp) ==
  {[addr |-> 0, push |-> TRUE]} \cup
  {[addr |-> a, push |-> p] : a \in CallocAddrs(hp), p \in BOOLEAN}

RECURSIVE TotalAllocs(_)
TotalAllocs(hp) ==
  IF hp = <<>> THEN 0 ELSE hp[Len(hp)].allocs + TotalAllocs(SubSeq(hp, 1, Len(hp) - 1))

RegisterWith(routines) ==
  /\ Running
  /\ ~query_results_formats.null
  /\ TotalAllocs(heap) < MaxReg
  /\ \E r \in routines, alloc \in AllocChoices(heap) :
       LET res == rasqal_world_register_query_results_format_factory(
                    query_results_formats.seq, heap, r, alloc)
       IN
       /\ query_results_formats' = [null |-> FALSE, seq |-> res.seq]
       /\ heap' = res.heap
       /\ registered' = IF res.ret # 0 THEN registered \cup {Len(res.seq)}
                        ELSE registered
       /\ last' = [op |-> "register", routine |-> r, alloc |-> alloc,
                   ret |-> res.ret, pre |-> query_results_formats.seq]
  /\ UNCHANGED <<crashed, fmt, xsd>>

Register == RegisterWith(Routines)

(***************************************************************************)
(* Initialisation                                                          *)
(***************************************************************************)

(* how the registration of one syntax fails *)
FailModes == {"calloc", "push", "rc", "label", "name"}

(* the callback of syntax k under mode m ("ok" when it does not fail) *)
SyntaxRoutine(k, m) ==
  IF m = "rc" THEN Routine(Syntaxes[k], 1)
  ELSE IF m = "label" THEN Routine(NoLabel(Syntaxes[k]), 0)
  ELSE IF m = "name" THEN Routine(NoFirstName(Syntaxes[k]), 0)
  ELSE Routine(Syntaxes[k], 0)

(* the address RASQAL_CALLOC returns: with reuse a freed block when there   *)
(* is one, else a new block                                                 *)
SyntaxAlloc(hp, m, reuse) ==
  [addr |-> IF m = "calloc" THEN 0
            ELSE IF reuse /\ FreedAddrs(hp) # {}
            THEN CHOOSE a \in FreedAddrs(hp) : \A b \in FreedAddrs(hp) : a <= b
            ELSE Len(hp) + 1,
   push |-> m # "push"]

(* rasqal_init_result_format_<syntax>(world): non-0 on failure *)
rasqal_init_result_format(seq, hp, k, m, reuse) ==
  rasqal_world_register_query_results_format_factory(
    seq, hp, SyntaxRoutine(k, m), SyntaxAlloc(hp, m, reuse))

(* lines 151-163 from syntax k on; modes[k] is the mode of syntax k and    *)
(* rets collects the pointers the registrations returned, ok the positions   *)
(* of the sequence that hold a returned factory                            *)
RECURSIVE InitFrom(_, _, _, _, _, _, _, _)
InitFrom(k, seq, hp, rc, rets, ok, modes, reuse) ==
  IF k > Len(Syntaxes)
  THEN [seq |-> seq, heap |-> hp, rc |-> rc, rets |-> rets, ok |-> ok]
  ELSE LET res == rasqal_init_result_format(seq, hp, k, modes[k], reuse) IN
       InitFrom(k + 1, res.seq, res.heap,
                rc + (IF res.ret = 0 THEN 1 ELSE 0),
                Append(rets, res.ret),
                IF res.ret # 0 THEN ok \cup {Len(res.seq)} ELSE ok,
                modes, reuse)

FailSets == {F \in SUBSET (1..Len(Syntaxes)) : Cardinality(F) <= MaxInitFail}

rasqal_init_result_formats ==
  /\ Running
  /\ query_results_formats.null
  /\ heap = <<>>
  /\ UNCHANGED <<fmt, xsd>>
  /\ \/ /\ last' = [op |-> "init", new_sequence |-> FALSE, rc |-> 1,
                     rets |-> <<>>, modes |-> <<>>]
        /\ UNCHANGED <<query_results_formats, heap, registered, crashed>>
     \/ \E F \in FailSets, reuse \in BOOLEAN :
          \E fm \in [F -> FailModes] :
            LET modes == [k \in 1..Len(Syntaxes) |->
                            IF k \in F THEN fm[k] ELSE "ok"]
                res == InitFrom(1, <<>>, heap, 0, <<>>, {}, modes, reuse)
            IN
            /\ query_results_formats' = [null |-> FALSE, seq |-> res.seq]
            /\ heap' = res.heap
            /\ registered' = res.ok
            /\ last' = [op |-> "init", new_sequence |-> TRUE, rc |-> res.rc,
                        rets |-> res.rets, modes |-> modes]
            /\ UNCHANGED crashed

(***************************************************************************)
(* Teardown                                                                *)
(***************************************************************************)

(* raptor_free_sequence: the free handler on elements from..Len(seq) *)
RECURSIVE FreeElements(_, _, _, _)
FreeElements(seq, hp, from, to) ==
  IF from > to THEN hp
  ELSE FreeElements(seq, rasqal_free_query_results_format_factory(hp, seq[from]),
                    from + 1, to)

(* the first element whose block is already free when its turn comes, or 0 *)
RECURSIVE FirstDoubleFree(_, _, _)
FirstDoubleFree(seq, hp, i) ==
  IF i > Len(seq) THEN 0
  ELSE IF ~hp[seq[i]].live THEN i
  ELSE FirstDoubleFree(seq, rasqal_free_query_results_format_factory(hp, seq[i]),
                       i + 1)

rasqal_finish_result_formats ==
  /\ Running
  /\ UNCHANGED <<fmt, xsd>>
  /\ IF query_results_formats.null
     THEN /\ UNCHANGED <<query_results_formats, heap, registered, crashed>>
          /\ last' = [op |-> "finish", pre |-> <<>>, was_null |-> TRUE]
     ELSE LET seq == query_results_formats.seq
              d   == FirstDoubleFree(seq, heap, 1)
          IN
          /\ last' = [op |-> "finish", pre |-> seq, was_null |-> FALSE]
          /\ \/ /\ heap' = FreeElements(seq, heap, 1, Len(seq))
                /\ query_results_formats' = [null |-> TRUE, seq |-> <<>>]
                /\ registered' = {}
                /\ UNCHANGED crashed
             \/ /\ d # 0
                /\ heap' = FreeElements(seq, heap, 1, d)
                /\ crashed' = TRUE
                /\ UNCHANGED <<query_results_formats, registered>>

(***************************************************************************)
(* Selector                                                                *)
(***************************************************************************)

(* a pointer result that is no factory: NULL is 0, a fault is SEGV *)
SEGV == 0 - 1

(* reading a freed block is undefined: with intact the block still holds    *)
(* what it held when freed, otherwise the read faults                       *)
Readable(hp, a, intact) == hp[a].live \/ intact

(* for(i = 0; (s = arr[i]); i++) if(!strcmp(s, key)) ...: the index of the  *)
(* match, 0 when the NULL terminator is reached first                       *)
RECURSIVE StrIndex(_, _, _)
StrIndex(arr, key, i) ==
  IF arr[i] = NULL THEN 0
  ELSE IF arr[i] = key THEN i
  ELSE StrIndex(arr, key, i + 1)

(* the same loop over a raptor_type_q array: the index the loop stops at,   *)
(* which is the terminator's when nothing matches                           *)
RECURSIVE TypeQIndex(_, _, _)
TypeQIndex(mts, key, j) ==
  IF mts[j].mime_type = NULL THEN j
  ELSE IF mts[j].mime_type = key THEN j
  ELSE TypeQIndex(mts, key, j + 1)

RECURSIVE GetFactoryFrom(_, _, _, _, _, _, _, _)
GetFactoryFrom(seq, hp, name, uri, mime_type, flags, intact, i) ==
  IF i > Len(seq) THEN 0
  ELSE
    LET a == seq[i]
        f == hp[a].f
        factory_flags == DerivedFlags(f)
        next == GetFactoryFrom(seq, hp, name, uri, mime_type, flags, intact, i + 1)
    IN
    IF ~Readable(hp, a, intact) THEN SEGV
    ELSE IF flags # 0 /\ factory_flags # flags THEN next
    ELSE IF name = NULL /\ uri = NULL THEN a
    ELSE IF name # NULL /\ f.names = <<>> THEN SEGV
    ELSE IF name # NULL /\ StrIndex(f.names, name, 1) # 0 THEN a
    ELSE IF uri # NULL /\ f.uri_strings # <<>> /\ StrIndex(f.uri_strings, uri, 1) # 0
    THEN a
    ELSE IF mime_type # NULL /\ f.mime_types = <<>> THEN SEGV
    ELSE IF mime_type # NULL
            /\ f.mime_types[TypeQIndex(f.mime_types, mime_type, 1)].mime_type # NULL
    THEN a
    ELSE next

(* raptor_sequence_get_at() on a NULL sequence returns NULL *)
rasqal_get_query_results_formatter_factory(qrf, hp, name, uri, mime_type, flags, intact) ==
  IF qrf.null THEN 0
  ELSE GetFactoryFrom(qrf.seq, hp, name, uri, mime_type, flags, intact, 1)

(* what a read of freed memory may do, when there is freed memory to read *)
IntactChoices(qrf, hp) ==
  IF \E i \in 1..Len(qrf.seq) : ~hp[qrf.seq[i]].live THEN BOOLEAN ELSE {TRUE}

ArgNames == {NULL, "table", "html"}
ArgUris == {NULL, "u:xml"}
ArgMimeTypes == {NULL, "m/text", "m/zz"}
ArgFlags == {0, 1, 2, 3}

rasqal_query_results_formats_check ==
  /\ Running
  /\ \E name \in ArgNames, uri \in ArgUris, mime_type \in ArgMimeTypes,
        flags \in ArgFlags, intact \in IntactChoices(query_results_formats, heap) :
       LET factory == rasqal_get_query_results_formatter_factory(
                        query_results_formats, heap, name, uri, mime_type,
                        flags, intact)
       IN
       /\ crashed' = (factory = SEGV)
       /\ last' = [op |-> "check", name |-> name, uri |-> uri,
                   mime_type |-> mime_type, flags |-> flags,
                   factory |-> factory,
                   ret |-> IF factory = SEGV THEN CRASH
                           ELSE IF factory # 0 THEN "found" ELSE "none"]
  /\ UNCHANGED <<query_results_formats, heap, registered, fmt, xsd>>

(***************************************************************************)
(* Sniffer                                                                 *)
(***************************************************************************)

FIRSTN == 1024

(* C strings read character by character: a sequence of characters ended   *)
(* by NUL; the NULL pointer is the empty sequence                          *)
NUL == "NUL"
CStr(chars) == Append(chars, NUL)

(* <ctype.h> in the C locale, on the characters identifiers are made of *)
isalpha(c) == c \in {"a", "b", "B"}
isdigit(c) == c \in {"7"}
isupper(c) == c \in {"B"}
tolower(c) == IF c = "B" THEN "b" ELSE c

(* strchr in the place of strrchr: the first ch, not the last *)
RECURSIVE strrchr_first(_, _, _)
strrchr_first(s, ch, i) ==
  IF i = 0 THEN 0
  ELSE LET before == strrchr_first(s, ch, i - 1) IN
       IF before # 0 THEN before
       ELSE IF s[i] = ch THEN i
       ELSE 0

(* strrchr(s, ch): the index of the last ch before the terminator, or 0 *)
RECURSIVE strrchr(_, _, _)
strrchr(s, ch, i) ==
  IF i = 0 THEN 0
  ELSE IF s[i] = ch THEN i
  ELSE strrchr(s, ch, i - 1)

(* the copy loop of lines 584-596, reading s from index from *)
RECURSIVE CopySuffix(_, _, _)
CopySuffix(s, from, to) ==
  LET c == s[from] IN
  IF c = NUL THEN Append(to, NUL)
  ELSE IF ~isalpha(c) /\ ~isdigit(c) THEN <<>>
  ELSE CopySuffix(s, from + 1, Append(to, IF isupper(c) THEN tolower(c) ELSE c))

(* lines 573-598: the suffix of identifier, <<>> when there is none *)
ExtractSuffix(identifier) ==
  IF identifier = <<>> THEN <<>>
  ELSE LET p == strrchr(identifier, ".", Len(identifier) - 1) IN
       IF p = 0 THEN <<>>
       ELSE CopySuffix(identifier, p + 1, <<>>)

(* whether lines 579-582 allocate *)
SuffixAllocated(identifier) ==
  identifier # <<>> /\ strrchr(identifier, ".", Len(identifier) - 1) # 0

(* the caller's buffer and len: whether buffer is non-NULL, len, the first  *)
(* byte, which is what the recognisers look at, and the byte at FIRSTN, an  *)
(* unsigned char, -1 when the buffer is too short to have one; ro tells     *)
(* that the bytes lie in memory that cannot be written, as the const of     *)
(* the parameter allows                                                     *)
Buffer(ptr, len, first, at, ro) ==
  [ptr |-> ptr, len |-> len, first |-> first, at |-> at, ro |-> ro]
NoBuffer == Buffer(FALSE, 0, "", 0 - 1, FALSE)
ShortBuffer == Buffer(TRUE, 1, "<", 0 - 1, FALSE)
LongBuffer(at) == Buffer(TRUE, FIRSTN + 1, "{", at, FALSE)
ReadOnlyBuffer == Buffer(TRUE, FIRSTN + 1, "{", 200, TRUE)
FirstNBytes == {0, 200}
Buffers ==
  {NoBuffer, ShortBuffer, ReadOnlyBuffer} \cup {LongBuffer(at) : at \in FirstNBytes}
BufferLen(b) == b.len
BufferByte(b, k) == IF k = FIRSTN THEN b.at ELSE b.first

(* buffer[FIRSTN] read through a plain char pointer where char is signed *)
SignedByteAt(b, k) ==
  IF BufferByte(b, k) >= 128 THEN BufferByte(b, k) - 256 ELSE BufferByte(b, k)

(* c = buffer[FIRSTN] of line 645: buffer is a const unsigned char* *)
ByteAt(b, k) == BufferByte(b, k)

(* the recognise_syntax behaviours of the factories *)
recognise_syntax(kind, first, len, identifier, suffix, mime_type) ==
  IF kind = "by_content" THEN (IF len > 0 /\ first = "<" THEN 6 ELSE 0)
  ELSE IF kind = "by_suffix" THEN (IF suffix = CStr(<<"b">>) THEN 8 ELSE 0)
  ELSE 0

Min(x, y) == IF x < y THEN x ELSE y

ScanResult(factory, i, scores, calls, buffer) ==
  [factory |-> factory, i |-> i, scores |-> scores, calls |-> calls,
   buffer |-> buffer]

(* the for loop of lines 600-662 from index i; scores and calls are what    *)
(* was recorded so far and buffer is the caller's buffer as it is now       *)
RECURSIVE GuessScan(_, _, _, _, _, _, _, _, _, _)
GuessScan(seq, hp, uri, mime_type, buffer, identifier, intact, i, scores, calls) ==
  IF i > Len(seq) THEN ScanResult(0, i - 1, scores, calls, buffer)
  ELSE
    LET a == seq[i]
        f == hp[a].f
        type_q == f.mime_types[TypeQIndex(f.mime_types, mime_type, 1)]
        mscore == IF mime_type # NULL /\ f.mime_types # <<>> THEN type_q.q
                  ELSE 0 - 1
        len == BufferLen(buffer)
        cut == buffer.ptr /\ len # 0 /\ len > FIRSTN
        c == IF cut THEN ByteAt(buffer, FIRSTN) ELSE 0 - 1
        during == IF cut THEN [buffer EXCEPT !.at = 0] ELSE buffer
        after == IF c >= 0 THEN [during EXCEPT !.at = c] ELSE during
        suffix == ExtractSuffix(identifier)
        affinity == recognise_syntax(f.recognise_syntax, BufferByte(during, 0),
                                     len, identifier, suffix, mime_type)
        call == [factory |-> a, len |-> len, identifier |-> identifier,
                 suffix |-> suffix, mime_type |-> mime_type, cut |-> cut,
                 at_firstn |-> BufferByte(during, FIRSTN),
                 affinity |-> affinity]
        score == IF f.recognise_syntax # NULL THEN mscore + affinity ELSE mscore
    IN
    IF ~Readable(hp, a, intact) THEN ScanResult(SEGV, i - 1, scores, calls, buffer)
    ELSE IF mscore >= 10 THEN ScanResult(a, i - 1, scores, calls, buffer)
    ELSE IF uri # NULL /\ f.uri_strings # <<>> /\ StrIndex(f.uri_strings, uri, 1) # 0
    THEN ScanResult(a, i - 1, scores, calls, buffer)
    ELSE IF f.recognise_syntax # NULL /\ cut /\ buffer.ro
    THEN ScanResult(SEGV, i - 1, scores, calls, buffer)
    ELSE GuessScan(seq, hp, uri, mime_type,
                   IF f.recognise_syntax # NULL THEN after ELSE buffer,
                   identifier, intact, i + 1,
                   Append(scores, [score |-> Min(score, 10), factory |-> a,
                                   mscore |-> mscore]),
                   IF f.recognise_syntax # NULL THEN Append(calls, call) ELSE calls)

(* qsort() with compare_syntax_score puts an entry of greatest score first; *)
(* which one, among equal scores, is not specified                          *)
compare_syntax_score(a, b) == b.score - a.score

SortedFirst(scores) ==
  {k \in 1..Len(scores) :
     \A j \in 1..Len(scores) : compare_syntax_score(scores[k], scores[j]) <= 0}

(* lines 664-676: the factory chosen after the loop.  With no entries       *)
(* scores[0] is read outside the zero-sized block: the read yields either   *)
(* a negative score or a pointer that faults when followed.                 *)
PickChoices(scan) ==
  IF scan.factory # 0 THEN {scan.factory}
  ELSE IF scan.i = 0 THEN {0, SEGV}
  ELSE {IF scan.scores[k].score >= 0 THEN scan.scores[k].factory ELSE 0 :
          k \in SortedFirst(scan.scores)}

(* return factory ? factory->desc.names[0] : NULL *)
GuessReturn(hp, factory) ==
  IF factory = SEGV THEN CRASH
  ELSE IF factory = 0 THEN NULL
  ELSE IF hp[factory].f.names = <<>> THEN CRASH
  ELSE hp[factory].f.names[1]

ArgIdentifiers == {<<>>, CStr(<<"a", ".", "B">>), CStr(<<".", "-">>)}
MemChoices == {"ok", "no_scores", "no_suffix"}

(* rasqal_world_guess_query_results_format_name *)
Guess(uri, mime_type, buffer, identifier, mem, intact) ==
  /\ Running
  /\ mem = "no_suffix" => SuffixAllocated(identifier)
  /\ LET early == \/ query_results_formats.null
                  \/ mem # "ok"
         scan == GuessScan(query_results_formats.seq, heap, uri, mime_type,
                           buffer, identifier, intact, 1, <<>>, <<>>)
     IN
     \E factory \in (IF early THEN {0} ELSE PickChoices(scan)) :
       LET ret == GuessReturn(heap, factory) IN
       /\ crashed' = (ret = CRASH)
       /\ last' = [op |-> "guess", uri |-> uri, mime_type |-> mime_type,
                   buffer |-> buffer, identifier |-> identifier, mem |-> mem,
                   buffer_after |-> IF early THEN buffer ELSE scan.buffer,
                   early |-> early,
                   suffix |-> IF early THEN <<>> ELSE ExtractSuffix(identifier),
                   shortcut |-> ~early /\ scan.factory > 0,
                   scores |-> IF early THEN <<>> ELSE scan.scores,
                   calls |-> IF early THEN <<>> ELSE scan.calls,
                   factory |-> factory, ret |-> ret]
  /\ UNCHANGED <<query_results_formats, heap, registered, fmt, xsd>>

rasqal_world_guess_query_results_format_name ==
  \E uri \in ArgUris, mime_type \in ArgMimeTypes, buffer \in Buffers,
     identifier \in ArgIdentifiers, mem \in MemChoices,
     intact \in IntactChoices(query_results_formats, heap) :
    Guess(uri, mime_type, buffer, identifier, mem, intact)

(***************************************************************************)
(* Formatter                                                               *)
(***************************************************************************)

(* no formatter: the caller holds NULL *)
NoFormatter ==
  [alloc |-> "none", factory |-> 0, context |-> "null", calls |-> <<>>]

(* one invocation of a factory behaviour on the formatter and its result *)
Call(fn, rc) == [fn |-> fn, rc |-> rc]

(* rasqal_free_query_results_formatter on a non-NULL formatter whose        *)
(* factory holds f                                                          *)
rasqal_free_query_results_formatter(fm, f) ==
  [fm EXCEPT !.calls = IF f.finish THEN Append(@, Call("finish", 0)) ELSE @,
             !.context = IF @ = "live" THEN "freed" ELSE @,
             !.alloc = "freed"]

FormatterResult(fm, ret) == [formatter |-> fm, ret |-> ret]

(* lines 317-340 for the factory at address factory holding f: mem tells    *)
(* which RASQAL_CALLOC fails, init_rc is what factory->init returns.        *)
(* ret is 1 for the formatter and 0 for NULL.                               *)
NewFormatter(factory, f, mem, init_rc) ==
  LET fm0 == [NoFormatter EXCEPT !.alloc = "live", !.factory = factory]
      fm1 == [fm0 EXCEPT !.context = IF f.context_length # 0 THEN "live"
                                     ELSE "null"]
      fm2 == [fm1 EXCEPT !.calls = IF f.init THEN Append(@, Call("init", init_rc))
                                   ELSE @]
  IN
  IF mem = "no_formatter" THEN FormatterResult(NoFormatter, 0)
  ELSE IF f.context_length # 0 /\ mem = "no_context"
  THEN FormatterResult(rasqal_free_query_results_formatter(fm0, f), 0)
  ELSE IF f.init /\ init_rc # 0
  THEN FormatterResult(rasqal_free_query_results_formatter(fm2, f), 0)
  ELSE FormatterResult(fm2, 1)

FormatterMem == {"ok", "no_formatter", "no_context"}
InitRcs == {0, 1}

(* the choices of mem and init_rc that the factory holding f can tell apart *)
Outcomes(f) ==
  {o \in [mem : FormatterMem, init_rc : InitRcs] :
     /\ o.mem = "no_context" => f.context_length # 0
     /\ o.init_rc # 0 => (f.init /\ o.mem = "ok")}

FmtNames == {NULL, "xml", "js", "turtle", "table"}
FmtMimeTypes == {NULL, "m/text"}

(* rasqal_new_query_results_formatter(world, name, mime_type, format_uri);  *)
(* op, args and guessed tell which constructor the caller used              *)
NewFormatterStep(name, mime_type, format_uri, intact, op, args, guessed) ==
  LET factory == rasqal_get_query_results_formatter_factory(
                   query_results_formats, heap, name, format_uri,
                   mime_type, 0, intact)
  IN
  IF factory <= 0
  THEN /\ crashed' = (factory = SEGV)
       /\ last' = [op |-> op, args |-> args, guessed |-> guessed,
                   name |-> name, mime_type |-> mime_type,
                   format_uri |-> format_uri, factory |-> factory,
                   mem |-> "ok", init_rc |-> 0,
                   ret |-> IF factory = SEGV THEN SEGV ELSE 0]
       /\ UNCHANGED formatter
  ELSE \E o \in Outcomes(heap[factory].f) :
         LET res == NewFormatter(factory, heap[factory].f, o.mem, o.init_rc)
         IN
         /\ formatter' = res.formatter
         /\ last' = [op |-> op, args |-> args, guessed |-> guessed,
                     name |-> name, mime_type |-> mime_type,
                     format_uri |-> format_uri, factory |-> factory,
                     mem |-> o.mem, init_rc |-> o.init_rc, ret |-> res.ret]
         /\ UNCHANGED crashed

rasqal_new_query_results_formatter ==
  /\ Running
  /\ formatter.alloc = "none"
  /\ \E name \in FmtNames, mime_type \in FmtMimeTypes, format_uri \in ArgUris,
        intact \in IntactChoices(query_results_formats, heap) :
       NewFormatterStep(name, mime_type, format_uri, intact, "new", <<>>, 0)
  /\ UNCHANGED <<query_results_formats, heap, registered, results, iostr, xsd>>

ContentUris == {NULL, "u:js"}
ContentMimeTypes == {NULL, "m/text"}
ContentBuffers == {NoBuffer, ShortBuffer}
ContentIdentifiers == {<<>>, CStr(<<"a", ".", "B">>)}

(* rasqal_new_query_results_formatter_for_content: the name guess() returns *)
(* is handed to rasqal_new_query_results_formatter                          *)
rasqal_new_query_results_formatter_for_content ==
  /\ Running
  /\ formatter.alloc = "none"
  /\ \E uri \in ContentUris, mime_type \in ContentMimeTypes,
        buffer \in ContentBuffers, identifier \in ContentIdentifiers,
        mem \in MemChoices,
        intact \in IntactChoices(query_results_formats, heap) :
       LET early == query_results_formats.null \/ mem # "ok"
           scan == GuessScan(query_results_formats.seq, heap, uri, mime_type,
                             buffer, identifier, intact, 1, <<>>, <<>>)
           args == <<uri, mime_type, buffer, identifier, mem>>
       IN
       /\ mem = "no_suffix" => SuffixAllocated(identifier)
       /\ \E guessed \in (IF early THEN {0} ELSE PickChoices(scan)) :
            LET name == GuessReturn(heap, guessed) IN
            IF name \in {NULL, CRASH}
            THEN /\ crashed' = (name = CRASH)
                 /\ last' = [op |-> "new_for_content", args |-> args,
                             guessed |-> guessed, name |-> name,
                             mime_type |-> NULL, format_uri |-> NULL,
                             factory |-> 0, mem |-> "ok", init_rc |-> 0,
                             ret |-> IF name = CRASH THEN SEGV ELSE 0]
                 /\ UNCHANGED formatter
            ELSE NewFormatterStep(name, NULL, NULL, intact, "new_for_content",
                                  args, guessed)
  /\ UNCHANGED <<query_results_formats, heap, registered, results, iostr, xsd>>

(* rasqal_free_query_results_formatter(formatter) with the formatter the    *)
(* caller holds, NULL when it holds none                                    *)
FreeFormatter ==
  /\ Running
  /\ formatter.alloc \in {"none", "live"}
  /\ IF formatter.alloc = "none"
     THEN /\ last' = [op |-> "free", was_null |-> TRUE]
          /\ UNCHANGED <<formatter, crashed>>
     ELSE \E intact \in (IF heap[formatter.factory].live THEN {TRUE} ELSE BOOLEAN) :
            /\ last' = [op |-> "free", was_null |-> FALSE]
            /\ IF intact
               THEN /\ formatter' = rasqal_free_query_results_formatter(
                                      formatter, heap[formatter.factory].f)
                    /\ UNCHANGED crashed
               ELSE /\ crashed' = TRUE
                    /\ UNCHANGED formatter
  /\ UNCHANGED <<query_results_formats, heap, registered, results, iostr, xsd>>

(* the write and get_rowsource calls made on the formatter so far *)
Uses(fm) ==
  Cardinality({k \in 1..Len(fm.calls) : fm.calls[k].fn \in {"write", "get_rowsource"}})

WriteResult(invoked, ret) == [invoked |-> invoked, ret |-> ret]

(* lines 457-463 without the test of line 461 *)
formatter_write_unchecked(f, missing, rc) ==
  IF missing # "none" THEN WriteResult(FALSE, 1)
  ELSE WriteResult(TRUE, rc)

(* lines 457-463: missing names the argument that is NULL, rc is what       *)
(* factory->write returns when it is called                                 *)
formatter_write(f, missing, rc) ==
  IF missing # "none" THEN WriteResult(FALSE, 1)
  ELSE IF ~f.write THEN WriteResult(FALSE, 1)
  ELSE WriteResult(TRUE, rc)

WriteMissing == {"none", "iostr", "formatter", "results"}
WriteRcs == {0, 1, 2}

(* what may happen when the formatter's factory block is read *)
FactoryReads == IF heap[formatter.factory].live THEN {TRUE} ELSE BOOLEAN

(* rasqal_query_results_formatter_write.  The factory's write puts the      *)
(* rows on the stream and leaves the result set empty.                      *)
rasqal_query_results_formatter_write ==
  /\ Running
  /\ formatter.alloc = "live"
  /\ Uses(formatter) < MaxOps
  /\ \E missing \in WriteMissing, rc \in WriteRcs, intact \in FactoryReads :
       LET res == formatter_write(heap[formatter.factory].f, missing, rc) IN
       /\ (rc # 0 \/ ~intact) => missing = "none"
       /\ rc # 0 => res.invoked
       /\ IF missing = "none" /\ ~intact
          THEN /\ crashed' = TRUE
               /\ last' = [op |-> "write", missing |-> missing, invoked |-> FALSE,
                           rc |-> rc, ret |-> SEGV, pre |-> results,
                           pre_iostr |-> iostr,
                           pre_calls |-> formatter.calls]
               /\ UNCHANGED <<formatter, results, iostr>>
          ELSE /\ last' = [op |-> "write", missing |-> missing,
                           invoked |-> res.invoked, rc |-> rc, ret |-> res.ret,
                           pre |-> results, pre_iostr |-> iostr,
                           pre_calls |-> formatter.calls]
               /\ formatter' = IF res.invoked
                               THEN [formatter EXCEPT
                                       !.calls = Append(@, Call("write", rc))]
                               ELSE formatter
               /\ iostr' = IF res.invoked THEN Append(iostr, results) ELSE iostr
               /\ results' = IF res.invoked THEN <<>> ELSE results
               /\ UNCHANGED crashed
  /\ UNCHANGED <<query_results_formats, heap, registered, xsd>>

(* a rowsource: it yields n rows and then NULL, at the end of the input or  *)
(* on an error; add_fail is the row at which rasqal_query_results_add_row   *)
(* fails, 0 when it never does                                              *)
RowSources ==
  {rs \in [n : 0..MaxRows, end : {"exhausted", "error"}, add_fail : 0..MaxRows] :
     rs.add_fail <= rs.n}

(* get_rowsource returned NULL *)
NoRowSource == [n |-> 0, end |-> "none", add_fail |-> 0]

(* the k-th row of the u-th rowsource *)
Row(u, k) == <<u, k>>

(* rasqal_rowsource_read_row: the next row, <<>> for NULL *)
rasqal_rowsource_read_row(rs, u, k) == IF k <= rs.n THEN Row(u, k) ELSE <<>>

(* rasqal_query_results_add_row: appends the row unless it fails *)
rasqal_query_results_add_row(res, row, fails) ==
  IF fails THEN res ELSE Append(res, row)

(* the loop of lines 506-511 from its k-th turn *)
RECURSIVE ReadLoop(_, _, _, _)
ReadLoop(rs, u, k, res) ==
  LET row == rasqal_rowsource_read_row(rs, u, k) IN
  IF row = <<>> THEN [results |-> res, reads |-> k]
  ELSE ReadLoop(rs, u, k + 1,
                rasqal_query_results_add_row(res, row, k = rs.add_fail))

ReadResult(invoked, ret, res, reads, disposed) ==
  [invoked |-> invoked, ret |-> ret, results |-> res, reads |-> reads,
   disposed |-> disposed]

(* lines 491-516: rs is what factory->get_rowsource returns when it is      *)
(* called, the u-th rowsource made, res the rows of the result set          *)
formatter_read(f, missing, rs, u, res) ==
  IF missing # "none" THEN ReadResult(FALSE, 1, res, 0, 0)
  ELSE IF ~f.get_rowsource THEN ReadResult(FALSE, 1, res, 0, 0)
  ELSE IF rs = NoRowSource THEN ReadResult(TRUE, 1, res, 0, 0)
  ELSE LET loop == ReadLoop(rs, u, 1, res) IN
       ReadResult(TRUE, 0, loop.results, loop.reads, 1)

ReadMissing == {"none", "world", "iostr", "formatter", "results", "base_uri"}

rasqal_query_results_formatter_read ==
  /\ Running
  /\ formatter.alloc = "live"
  /\ Uses(formatter) < MaxOps
  /\ \E missing \in ReadMissing, rs \in RowSources \cup {NoRowSource},
        intact \in FactoryReads :
       LET res == formatter_read(heap[formatter.factory].f, missing, rs,
                                 Uses(formatter) + 1, results)
       IN
       /\ (rs # NoRowSource \/ ~intact) => missing = "none"
       /\ rs # NoRowSource => res.invoked
       /\ IF missing = "none" /\ ~intact
          THEN /\ crashed' = TRUE
               /\ last' = [op |-> "read", missing |-> missing, invoked |-> FALSE,
                           rowsource |-> rs, ret |-> SEGV, pre |-> results,
                           pre_iostr |-> iostr,
                           pre_calls |-> formatter.calls, reads |-> 0, disposed |-> 0,
                           u |-> 0]
               /\ UNCHANGED <<formatter, results>>
          ELSE /\ last' = [op |-> "read", missing |-> missing,
                           invoked |-> res.invoked, rowsource |-> rs,
                           ret |-> res.ret, pre |-> results,
                           pre_iostr |-> iostr,
                           pre_calls |-> formatter.calls, reads |-> res.reads,
                           disposed |-> res.disposed,
                           u |-> Uses(formatter) + 1]
               /\ formatter' = IF res.invoked
                               THEN [formatter EXCEPT
                                       !.calls = Append(@,
                                          Call("get_rowsource",
                                               IF rs = NoRowSource THEN 0 ELSE 1))]
                               ELSE formatter
               /\ results' = res.results
               /\ UNCHANGED crashed
  /\ UNCHANGED <<query_results_formats, heap, registered, iostr, xsd>>

(* the world inside rasqal_init_result_formats() once line 147 has made the *)
(* sequence: the registrations that follow are Register steps               *)
Init ==
  /\ query_results_formats = [null |-> FALSE, seq |-> <<>>]
  /\ heap = <<>>
  /\ registered = {}
  /\ crashed = FALSE
  /\ last = [op |-> "none"]
  /\ formatter = NoFormatter
  /\ results = <<>>
  /\ iostr = <<>>
  /\ xsd_namespace_uri = NULL
  /\ xsd_datatype_uris = <<>>

Next ==
  \/ Register
  \/ rasqal_finish_result_formats
  \/ rasqal_query_results_formats_check
  \/ rasqal_world_guess_query_results_format_name

Spec == Init /\ [][Next]_vars

(* the world before rasqal_init_result_formats() *)
InitWorld ==
  /\ query_results_formats = [null |-> TRUE, seq |-> <<>>]
  /\ heap = <<>>
  /\ registered = {}
  /\ crashed = FALSE
  /\ last = [op |-> "none"]
  /\ formatter = NoFormatter
  /\ results = <<>>
  /\ iostr = <<>>
  /\ xsd_namespace_uri = NULL
  /\ xsd_datatype_uris = <<>>

NextWorld ==
  \/ rasqal_init_result_formats
  \/ rasqal_finish_result_formats

SpecWorld == InitWorld /\ [][NextWorld]_vars

(***************************************************************************)
(* The sniffer on every identifier of a few characters                     *)
(***************************************************************************)

IdChars == {"a", "B", "7", ".", "-"}
Identifiers ==
  {<<>>} \cup UNION {{CStr(w) : w \in [1..n -> IdChars]} : n \in 0..MaxIdLen}

SuffixRoutines == {Routine(JsonFactory, 0), Routine(XmlFactory, 0)}

RegisterSniffable == RegisterWith(SuffixRoutines)

GuessIdentifier ==
  \E identifier \in Identifiers, mem \in MemChoices,
     intact \in IntactChoices(query_results_formats, heap) :
    Guess(NULL, NULL, ShortBuffer, identifier, mem, intact)

NextSuffix ==
  \/ RegisterSniffable
  \/ GuessIdentifier

SpecSuffix == Init /\ [][NextSuffix]_vars

(***************************************************************************)
(* Formatters over a few registries                                        *)
(***************************************************************************)

(* a reader registered under a name that JsonFactory has as an alias *)
JsFactory ==
  [names |-> <<"js", NULL>>, label |-> TRUE,
   uri_strings |-> <<"u:js", NULL>>,
   mime_types |-> <<TypeQ("m/js", 10), TypeQ(NULL, 0)>>,
   flags |-> 0, get_rowsource |-> TRUE, write |-> FALSE,
   context_length |-> 0, init |-> TRUE, finish |-> TRUE,
   recognise_syntax |-> NULL]

(* the callbacks registered, in order, before formatters are made *)
FormatterSetups ==
  {<<>>,
   <<Routine(XmlFactory, 0), Routine(JsonFactory, 0), Routine(TurtleFactory, 0)>>,
   <<Routine(TableFactory, 0), Routine(JsonFactory, 0), Routine(JsFactory, 0)>>,
   <<Routine(NoLabel(JsonFactory), 0), Routine(XmlFactory, 0)>>}

(* the registrations of setup from its k-th on, each in a new block *)
RECURSIVE RegisterAll(_, _, _, _, _)
RegisterAll(setup, k, seq, hp, ok) ==
  IF k > Len(setup) THEN [seq |-> seq, heap |-> hp, ok |-> ok]
  ELSE LET res == rasqal_world_register_query_results_format_factory(
                    seq, hp, setup[k], [addr |-> Len(hp) + 1, push |-> TRUE])
       IN RegisterAll(setup, k + 1, res.seq, res.heap,
                      IF res.ret # 0 THEN ok \cup {Len(res.seq)} ELSE ok)

InitFormatter ==
  \E setup \in FormatterSetups :
    LET res == RegisterAll(setup, 1, <<>>, <<>>, {}) IN
    /\ query_results_formats = [null |-> FALSE, seq |-> res.seq]
    /\ heap = res.heap
    /\ registered = res.ok
    /\ crashed = FALSE
    /\ last = [op |-> "none"]
    /\ formatter = NoFormatter
    /\ results = <<>>
    /\ iostr = <<>>
    /\ xsd_namespace_uri = NULL
    /\ xsd_datatype_uris = <<>>

NextFormatter ==
  \/ rasqal_new_query_results_formatter
  \/ rasqal_new_query_results_formatter_for_content
  \/ FreeFormatter
  \/ rasqal_query_results_formatter_write
  \/ rasqal_query_results_formatter_read

SpecFormatter == InitFormatter /\ [][NextFormatter]_vars

(***************************************************************************)
(* XSD datatype URIs (rasqal_xsd_datatypes.c)                              *)
(***************************************************************************)

(* rasqal_literal_type, in the order of parent_xsd_type *)
RASQAL_LITERAL_UNKNOWN == 0
RASQAL_LITERAL_FIRST_XSD == 4
RASQAL_LITERAL_LAST_XSD == 10
RASQAL_LITERAL_INTEGER_SUBTYPE == 15

XSD_INTEGER_DERIVED_COUNT == 12
XSD_INTEGER_DERIVED_FIRST == RASQAL_LITERAL_LAST_XSD + 1
XSD_INTEGER_DERIVED_LAST == RASQAL_LITERAL_LAST_XSD + XSD_INTEGER_DERIVED_COUNT - 1
SPARQL_XSD_NAMES_COUNT == RASQAL_LITERAL_LAST_XSD + 1 + XSD_INTEGER_DERIVED_COUNT

(* a C array of n elements is a sequence read at index + 1 *)
At(array, i) == array[i + 1]

sparql_xsd_names ==
  <<NULL, NULL, NULL, NULL,
    "string", "boolean", "integer", "float", "double", "decimal", "dateTime",
    "nonPositiveInteger", "negativeInteger",
    "long", "int", "short", "byte",
    "nonNegativeInteger", "unsignedLong", "postiveInteger",
    "unsignedInt", "unsignedShort", "unsignedByte",
    NULL>>

(* raptor_new_uri_from_uri_local_name *)
raptor_new_uri_from_uri_local_name(ns, name) == ns \o name

(* raptor_uri_equals *)
raptor_uri_equals(u1, u2) == u1 = u2

XsdNamespace == "xsd:"

(* the table RASQAL_CALLOC returns: SPARQL_XSD_NAMES_COUNT + 1 NULLs *)
ZeroTable == [k \in 1..(SPARQL_XSD_NAMES_COUNT + 1) |-> NULL]

(* the loop of lines 450-457 from index i; the making of the URI of index  *)
(* fail_i fails                                                            *)
RECURSIVE InitTable(_, _, _)
InitTable(i, table, fail_i) ==
  IF ~(i < SPARQL_XSD_NAMES_COUNT) THEN [table |-> table, ret |-> 0]
  ELSE IF i = fail_i THEN [table |-> table, ret |-> 1]
  ELSE InitTable(i + 1,
                 [table EXCEPT ![i + 1] =
                    raptor_new_uri_from_uri_local_name(XsdNamespace,
                                                       At(sparql_xsd_names, i))],
                 fail_i)

XsdFailures ==
  {[step |-> "none", i |-> 0], [step |-> "namespace", i |-> 0],
   [step |-> "calloc", i |-> 0]} \cup
  {[step |-> "uri", i |-> i] :
     i \in RASQAL_LITERAL_FIRST_XSD..(SPARQL_XSD_NAMES_COUNT - 1)}

rasqal_xsd_init ==
  /\ xsd_namespace_uri = NULL
  /\ xsd_datatype_uris = <<>>
  /\ \E fail \in XsdFailures :
       LET res == InitTable(RASQAL_LITERAL_FIRST_XSD, ZeroTable,
                            IF fail.step = "uri" THEN fail.i ELSE 0 - 1)
       IN
       /\ xsd_namespace_uri' = IF fail.step = "namespace" THEN NULL
                               ELSE XsdNamespace
       /\ xsd_datatype_uris' = IF fail.step \in {"namespace", "calloc"} THEN <<>>
                               ELSE res.table
       /\ last' = [op |-> "xsd_init", fail |-> fail,
                   ret |-> IF fail.step \in {"namespace", "calloc"} THEN 1
                           ELSE res.ret]
  /\ UNCHANGED <<query_results_formats, heap, registered, crashed, fmt>>

rasqal_xsd_finish ==
  /\ xsd_datatype_uris' = <<>>
  /\ xsd_namespace_uri' = NULL
  /\ last' = [op |-> "xsd_finish"]
  /\ UNCHANGED <<query_results_formats, heap, registered, crashed, fmt>>

(* the loop of lines 495-503 from index i up to index to *)
RECURSIVE UriToTypeFrom(_, _, _, _)
UriToTypeFrom(table, uri, i, to) ==
  IF ~(i <= to) THEN RASQAL_LITERAL_UNKNOWN
  ELSE IF raptor_uri_equals(uri, At(table, i))
  THEN (IF i >= XSD_INTEGER_DERIVED_FIRST THEN RASQAL_LITERAL_INTEGER_SUBTYPE
        ELSE i)
  ELSE UriToTypeFrom(table, uri, i + 1, to)

rasqal_xsd_datatype_uri_to_type(table, uri) ==
  IF uri = NULL \/ table = <<>> THEN RASQAL_LITERAL_UNKNOWN
  ELSE UriToTypeFrom(table, uri, RASQAL_LITERAL_FIRST_XSD,
                     XSD_INTEGER_DERIVED_LAST)

rasqal_xsd_datatype_type_to_uri(table, type) ==
  IF table # <<>> /\ type >= RASQAL_LITERAL_FIRST_XSD
     /\ type <= RASQAL_LITERAL_LAST_XSD
  THEN At(table, type)
  ELSE NULL

rasqal_xsd_is_datatype_uri(table, uri) ==
  rasqal_xsd_datatype_uri_to_type(table, uri) # RASQAL_LITERAL_UNKNOWN

(* the URIs callers ask about: those of the names of the table, the        *)
(* correctly spelt xsd:positiveInteger, a URI of no XSD type and NULL      *)
XsdUris ==
  {raptor_new_uri_from_uri_local_name(XsdNamespace, At(sparql_xsd_names, i)) :
     i \in RASQAL_LITERAL_FIRST_XSD..(SPARQL_XSD_NAMES_COUNT - 1)} \cup
  {"xsd:positiveInteger", "xsd:anyURI", NULL}

XsdTypes == RASQAL_LITERAL_UNKNOWN..RASQAL_LITERAL_INTEGER_SUBTYPE

UriToType ==
  /\ \E uri \in XsdUris :
       last' = [op |-> "uri_to_type", uri |-> uri,
                ret |-> rasqal_xsd_datatype_uri_to_type(xsd_datatype_uris, uri)]
  /\ UNCHANGED <<query_results_formats, heap, registered, crashed, fmt, xsd>>

TypeToUri ==
  /\ \E type \in XsdTypes :
       last' = [op |-> "type_to_uri", type |-> type,
                ret |-> rasqal_xsd_datatype_type_to_uri(xsd_datatype_uris, type)]
  /\ UNCHANGED <<query_results_formats, heap, registered, crashed, fmt, xsd>>

IsDatatypeUri ==
  /\ \E uri \in XsdUris :
       last' = [op |-> "is_datatype_uri", uri |-> uri,
                ret |-> rasqal_xsd_is_datatype_uri(xsd_datatype_uris, uri)]
  /\ UNCHANGED <<query_results_formats, heap, registered, crashed, fmt, xsd>>

NextXsd ==
  \/ rasqal_xsd_init
  \/ rasqal_xsd_finish
  \/ UriToType
  \/ TypeToUri
  \/ IsDatatypeUri

SpecXsd == InitWorld /\ [][NextXsd]_vars

(***************************************************************************)
(* Properties                                                              *)
(***************************************************************************)

(* the factory at position i of the registry *)
FactoryAt(i) == heap[query_results_formats.seq[i]].f
Positions == 1..Len(query_results_formats.seq)

(* the strings of a NULL-terminated array *)
Strings(arr) == {arr[k] : k \in 1..Len(arr)} \ {NULL}
MimeTypesOf(f) == {f.mime_types[k].mime_type : k \in 1..Len(f.mime_types)} \ {NULL}

(* C8 - what the claim says the suffix of an identifier is: none when the  *)
(* identifier has no '.' or a character after the last '.' is neither a    *)
(* letter nor a digit, else the characters after the last '.' with the     *)
(* upper-case ones lower-cased                                             *)
LetterOrDigit == {"a", "b", "B", "7"}
LowerCased(c) == CASE c = "B" -> "b" [] OTHER -> c
DotPositions(id) == {k \in 1..(Len(id) - 1) : id[k] = "."}
LastDot(id) == CHOOSE k \in DotPositions(id) : \A j \in DotPositions(id) : j <= k
AfterLastDot(id) == SubSeq(id, LastDot(id) + 1, Len(id) - 1)
ClaimedSuffix(id) ==
  IF id = <<>> THEN <<>>
  ELSE IF DotPositions(id) = {} THEN <<>>
  ELSE LET tail == AfterLastDot(id) IN
       IF \E k \in 1..Len(tail) : tail[k] \notin LetterOrDigit THEN <<>>
       ELSE CStr([k \in 1..Len(tail) |-> LowerCased(tail[k])])

HasName(f, n) == n \in Strings(f.names)

(* every entry of the registry is a factory whose registration succeeded *)
AllRegistered == registered = Positions

(* C1: a registration whose callback leaves the descriptor without a first *)
(* name or without a label returns NULL and leaves the registry holding    *)
(* the sequence of factories it held before the call                       *)
C1_RejectedLeavesRegistry ==
  (last.op = "register" /\ MissingRequired(last.routine.f)) =>
     /\ last.ret = 0
     /\ query_results_formats.seq = last.pre

(* C2: with flags 0, a name that is an alias of a registered factory A and *)
(* a uri or mime type that matches another registered factory B, the       *)
(* selector returns a factory that has the name among its names            *)
C2_NameBeatsUri ==
  (/\ last.op = "check" /\ last.flags = 0 /\ last.name # NULL
   /\ \E A \in registered, B \in registered :
        /\ A # B
        /\ HasName(FactoryAt(A), last.name)
        /\ ~HasName(FactoryAt(B), last.name)
        /\ \/ last.uri \in Strings(FactoryAt(B).uri_strings)
           \/ last.mime_type \in MimeTypesOf(FactoryAt(B)))
  => (last.factory > 0 /\ HasName(heap[last.factory].f, last.name))

(* C3: when guess() is given no uri and a mime type that a registered      *)
(* factory X declares with quality 10, and its allocations succeed, it     *)
(* returns names[0] of X                                                   *)
DeclaresWithQ(f, m, q) ==
  \E k \in 1..Len(f.mime_types) : f.mime_types[k] = TypeQ(m, q)

C3_AuthoritativeMime ==
  (last.op = "guess" /\ last.mem = "ok" /\ last.uri = NULL
   /\ last.mime_type # NULL) =>
     \A X \in registered :
        DeclaresWithQ(FactoryAt(X), last.mime_type, 10)
          => last.ret = FactoryAt(X).names[1]

(* C4: in a non-empty registry of successfully registered factories, a    *)
(* candidate                                                               *)
(* that does not declare the given mime type has score -1 after the MIME   *)
(* step; and when no candidate declares the mime type, none has the uri    *)
(* and no recogniser returned more than 0, guess() returns NULL            *)
C4_NoMatchIsAbsent ==
  (last.op = "guess" /\ last.mem = "ok" /\ AllRegistered
   /\ Positions # {} /\ ~query_results_formats.null) =>
     /\ \A k \in 1..Len(last.scores) :
          last.mime_type \notin MimeTypesOf(heap[last.scores[k].factory].f)
            => last.scores[k].mscore = 0 - 1
     /\ (/\ \A i \in Positions :
               /\ last.mime_type \notin MimeTypesOf(FactoryAt(i))
               /\ last.uri \notin Strings(FactoryAt(i).uri_strings)
          /\ \A k \in 1..Len(last.calls) : last.calls[k].affinity <= 0)
        => last.ret = NULL

(* C5: every factory in the registry has the READER flag iff it supplies   *)
(* get_rowsource and the WRITER flag iff it supplies write, which are the  *)
(* flags the selector compares                                             *)
C5_DerivedFlags ==
  \A i \in Positions : FactoryAt(i).flags = DerivedFlags(FactoryAt(i))

(* C6: in a registry of successfully registered factories, a lookup with   *)
(* no name, no uri and a mime type returns a factory that declares the     *)
(* mime type, and NULL when no factory declares it                         *)
C6_LookupByMimeAlone ==
  (last.op = "check" /\ last.flags = 0 /\ last.name = NULL /\ last.uri = NULL
   /\ last.mime_type # NULL /\ AllRegistered) =>
     /\ last.factory > 0
          => last.mime_type \in MimeTypesOf(heap[last.factory].f)
     /\ (\A i \in Positions : last.mime_type \notin MimeTypesOf(FactoryAt(i)))
          => last.factory = 0

(* C7: a check by name alone, flags 0, finds a format exactly when a       *)
(* factory with that alias has been successfully registered and the        *)
(* registry has not been torn down                                         *)
C7_AvailabilityTracksRegistration ==
  (last.op = "check" /\ last.flags = 0 /\ last.name # NULL /\ last.uri = NULL
   /\ last.mime_type = NULL) =>
     ((last.ret = "found") <=>
        (\E i \in registered : HasName(FactoryAt(i), last.name)))

(* C9: once the sequence exists, rasqal_init_result_formats() calls all    *)
(* seven registrations, returns non-0 iff one of them failed, and leaves   *)
(* in the registry the factories of those that succeeded, in order         *)
Succeeded(ret) == ret # 0

C9_InitRegistersSucceeded ==
  (last.op = "init" /\ last.new_sequence) =>
     /\ Len(last.rets) = Len(Syntaxes)
     /\ (last.rc # 0) <=> (\E k \in 1..Len(last.rets) : last.rets[k] = 0)
     /\ query_results_formats.seq = SelectSeq(last.rets, Succeeded)

(* C10: no freed factory is reachable from the registry, and after         *)
(* teardown the registry is gone and every factory block allocated was     *)
(* freed as many times as it was allocated                                 *)
C10_OwnershipAndTeardown ==
  /\ \A i \in Positions : heap[query_results_formats.seq[i]].live
  /\ last.op = "finish" =>
       /\ query_results_formats.null
       /\ \A a \in 1..Len(heap) : heap[a].frees = heap[a].allocs

(* the positions of the formatter's call log where fn was invoked *)
CallsOf(fn) == {k \in 1..Len(formatter.calls) : formatter.calls[k].fn = fn}

NewOps == {"new", "new_for_content"}

(* C11: finish runs at most once on a formatter, and only after init has   *)
(* returned success on it when its factory has an init; and when the       *)
(* constructor fails because the context allocation or init fails, it      *)
(* returns NULL, the context and the formatter are released and finish     *)
(* has not run                                                             *)
C11_FormatterLifecycle ==
  /\ Cardinality(CallsOf("finish")) <= 1
  /\ \A k \in CallsOf("finish") :
       heap[formatter.factory].f.init =>
         \E j \in CallsOf("init") : j < k /\ formatter.calls[j].rc = 0
  /\ (last.op \in NewOps /\ (last.mem = "no_context" \/ last.init_rc # 0)) =>
       /\ last.ret = 0
       /\ formatter.alloc = "freed"
       /\ formatter.context # "live"
       /\ CallsOf("finish") = {}

(* the factory the formatter is bound to *)
BoundFactory == heap[formatter.factory].f

(* C12: a write that reaches factory->write returns what it returned; a    *)
(* read that reaches get_rowsource returns non-0 when no rowsource was     *)
(* made, when the rowsource stopped on an error or when adding a row       *)
(* failed, so that a read that returns 0 has read the rowsource to the end *)
(* of its input                                                            *)
C12_FailuresPropagate ==
  /\ (last.op = "write" /\ last.invoked) => last.ret = last.rc
  /\ (last.op = "read" /\ last.invoked) =>
       /\ last.rowsource = NoRowSource => last.ret # 0
       /\ last.rowsource.end = "error" => last.ret # 0
       /\ last.rowsource.add_fail # 0 => last.ret # 0
       /\ last.ret = 0 => last.rowsource.end = "exhausted"

(* C13: a write on a formatter whose factory has no write, and a read on   *)
(* one whose factory has no get_rowsource, return non-0, call no factory   *)
(* behaviour and leave the stream and the result set as they were          *)
C13_CapabilityFailsFast ==
  (/\ last.op \in {"write", "read"}
   /\ last.missing = "none"
   /\ formatter.alloc = "live"
   /\ heap[formatter.factory].live
   /\ \/ last.op = "write" /\ ~BoundFactory.write
      \/ last.op = "read" /\ ~BoundFactory.get_rowsource) =>
     /\ last.ret \notin {0, SEGV}
     /\ ~last.invoked
     /\ formatter.calls = last.pre_calls
     /\ iostr = last.pre_iostr
     /\ results = last.pre

(* a write was refused on a formatter of a read-only factory while the     *)
(* result set held the rows of an earlier read                             *)
C13_Witness ==
  /\ last.op = "write"
  /\ last.missing = "none"
  /\ formatter.alloc = "live"
  /\ heap[formatter.factory].live
  /\ ~BoundFactory.write
  /\ last.ret = 1
  /\ results # <<>>

(* the rows the u-th rowsource yields when it yields n *)
Produced(u, n) == [k \in 1..n |-> Row(u, k)]

(* C14: when the rowsource yields r1..rn and then reaches the end of its   *)
(* input, the result set after the read is the rows it held before         *)
(* followed by r1..rn, the rowsource was freed once and the loop ended     *)
(* after n + 1 reads                                                       *)
C14_ReadRowOrder ==
  (/\ last.op = "read" /\ last.invoked
   /\ last.rowsource # NoRowSource
   /\ last.rowsource.end = "exhausted") =>
     /\ results = last.pre \o Produced(last.u, last.rowsource.n)
     /\ last.disposed = 1
     /\ last.reads = last.rowsource.n + 1

(* C15: a check with non-zero flags returns only a factory whose derived   *)
(* flags equal the flags asked for, and finds nothing when no registered   *)
(* factory has exactly those flags, whatever name, uri and mime type       *)
C15_StrictFlags ==
  (last.op = "check" /\ last.flags # 0) =>
     /\ last.factory > 0 => DerivedFlags(heap[last.factory].f) = last.flags
     /\ (\A i \in registered : DerivedFlags(FactoryAt(i)) # last.flags)
          => last.ret = "none"

(* C16: when guess() returns, by either short cut, from the scored         *)
(* selection, with or without a name, or early, the caller's buffer holds  *)
(* what it held before the call; and a recogniser called on a buffer of    *)
(* more than FIRSTN bytes saw 0 at byte FIRSTN                             *)
C16_BufferUnchanged ==
  (last.op = "guess" /\ last.ret # CRASH) =>
     /\ last.buffer_after = last.buffer
     /\ \A k \in 1..Len(last.calls) :
          last.calls[k].cut => last.calls[k].at_firstn = 0

(* a recogniser ran on a long buffer whose byte FIRSTN is 200 and saw 0    *)
(* there, and the scored selection returned with the byte put back         *)
C16_Witness ==
  /\ last.op = "guess"
  /\ last.ret \notin {CRASH, NULL}
  /\ ~last.shortcut
  /\ last.buffer = LongBuffer(200)
  /\ last.buffer_after.at = 200
  /\ Len(last.calls) > 0
  /\ last.calls[1].cut
  /\ last.calls[1].at_firstn = 0

(* the quality with which f declares the mime type m, -1 when m is NULL or *)
(* f does not declare it                                                   *)
MimeQualityOrMinus1(f, m) ==
  IF m # NULL /\ m \in MimeTypesOf(f)
  THEN (CHOOSE t \in {f.mime_types[k] : k \in 1..Len(f.mime_types)} :
          t.mime_type = m).q
  ELSE 0 - 1

(* what the recogniser of the factory at address a returned in the last    *)
(* guess(), 0 when it has none                                             *)
RecogniserAffinity(a) ==
  IF \E k \in 1..Len(last.calls) : last.calls[k].factory = a
  THEN last.calls[CHOOSE k \in 1..Len(last.calls) :
                    last.calls[k].factory = a].affinity
  ELSE 0

(* C17: when guess() on a non-empty registry of registered factories takes *)
(* no short cut, the score recorded for each candidate is the smaller of   *)
(* 10 and the quality of the mime type, or -1, plus what its recogniser    *)
(* returned; a returned name is names[0] of a candidate whose recorded     *)
(* score is not below 0 nor below any other; and no name is returned when  *)
(* every recorded score is below 0                                         *)
C17_ScoredSelection ==
  (/\ last.op = "guess" /\ last.mem = "ok" /\ ~last.early /\ ~last.shortcut
   /\ last.factory # SEGV
   /\ Positions # {} /\ AllRegistered) =>
     /\ Len(last.scores) = Len(query_results_formats.seq)
     /\ \A k \in 1..Len(last.scores) :
          last.scores[k].score =
            Min(10, MimeQualityOrMinus1(heap[last.scores[k].factory].f,
                                        last.mime_type)
                    + RecogniserAffinity(last.scores[k].factory))
     /\ last.ret # NULL =>
          \E k \in 1..Len(last.scores) :
             /\ last.ret = heap[last.scores[k].factory].f.names[1]
             /\ last.scores[k].score >= 0
             /\ \A j \in 1..Len(last.scores) :
                  last.scores[k].score >= last.scores[j].score
     /\ (\A k \in 1..Len(last.scores) : last.scores[k].score < 0)
          => last.ret = NULL

(* C18: when guess() selects the factory F, the constructor for content    *)
(* called with the same arguments returns a formatter bound to F, unless   *)
(* making the formatter fails; and it returns NULL exactly when guess()    *)
(* returns no name or making the formatter fails                           *)
ConstructionFailed ==
  last.factory = 0 \/ last.mem # "ok" \/ last.init_rc # 0

C18_ContentAgreesWithGuess ==
  (last.op = "new_for_content" /\ last.ret # SEGV) =>
     /\ (last.guessed > 0 /\ last.ret # 0) => formatter.factory = last.guessed
     /\ (last.ret = 0) <=> (last.name = NULL \/ ConstructionFailed)

(* rasqal_xsd_init() has run and returned 0: the table holds a URI for     *)
(* every name                                                              *)
XsdNameIndexes == RASQAL_LITERAL_FIRST_XSD..(SPARQL_XSD_NAMES_COUNT - 1)
XsdReady ==
  /\ xsd_datatype_uris # <<>>
  /\ \A i \in XsdNameIndexes : At(xsd_datatype_uris, i) # NULL

(* the type the claim gives the URI made for index i *)
ClaimedType(i) ==
  IF i <= RASQAL_LITERAL_LAST_XSD THEN i ELSE RASQAL_LITERAL_INTEGER_SUBTYPE

(* C19: after rasqal_xsd_init() has succeeded, uri_to_type gives each of   *)
(* the 7 atomic URIs its own type and each of the 12 URIs derived from     *)
(* xsd:integer INTEGER_SUBTYPE, is_datatype_uri is true of all 19, and     *)
(* uri_to_type of type_to_uri(t) is t for every atomic type t              *)
C19_XsdUriCoverage ==
  XsdReady =>
    /\ last.op = "uri_to_type" =>
         \A i \in XsdNameIndexes :
            last.uri = At(xsd_datatype_uris, i) => last.ret = ClaimedType(i)
    /\ last.op = "is_datatype_uri" =>
         \A i \in XsdNameIndexes :
            last.uri = At(xsd_datatype_uris, i) => last.ret = TRUE
    /\ (/\ last.op = "type_to_uri"
        /\ last.type >= RASQAL_LITERAL_FIRST_XSD
        /\ last.type <= RASQAL_LITERAL_LAST_XSD) =>
         rasqal_xsd_datatype_uri_to_type(xsd_datatype_uris, last.ret) = last.type
====
